---- MODULE Spec2Model ----
(***************************************************************************)
(* A model of pid/__init__.py (PidFile): one PID file path shared by       *)
(* several managers, each living in a process of its own.  The file system *)
(* is modelled down to inodes, because an open handle keeps addressing its *)
(* inode after the path has been unlinked, and flock() locks belong to the *)
(* open handle.                                                            *)
(*                                                                         *)
(* Every method of PidFile is an operator from a world record to a world   *)
(* record (setup, check, inner_check, create, close).  Spec runs each      *)
(* method as one atomic action; ConcSpec runs create and close step by     *)
(* step (open, lock, check, write / close handle, delete file) so that the *)
(* steps of different processes interleave.                                *)
(*                                                                         *)
(* ScopeSpec is Spec for managers used through "with"; ExitSpec adds the   *)
(* end of the process: SIGTERM, the interpreter's shutdown and the atexit  *)
(* functions.                                                              *)
(*                                                                         *)
(* NameSpec draws the constructor options and the environment that         *)
(* _make_filename reads; paths are sequences of characters, joined and     *)
(* normalised as os.path does.  HintSpec lets the caller change the hints  *)
(* of a manager after its first setup, SignalSpec lets the program change  *)
(* its SIGTERM disposition, CloseSpec has programs that close more than    *)
(* once, whose fh.close() may fail, and that end.  In every specification  *)
(* the managers are constructed with the same name options, so that they   *)
(* resolve the same path.                                                  *)
(*                                                                         *)
(* Left out: logging, chmod/chown of the handle (lines 170-173), and       *)
(* os.makedirs and the os.access tests of _make_filename (lines 91-96):    *)
(* the directory is taken to exist, readable and writable.  Re-binding     *)
(* self.fh in create closes the previous file object at once (CPython      *)
(* reference counting).                                                    *)
(***************************************************************************)
EXTENDS Integers, Sequences, FiniteSets, TLC

\* ------------------------------------------------------------------ bounds
NumManagers == 2
FirstPid == 11
StalePid == 345
ForeignPid == 1
MaxHooks == 1

\* fh.read(16)
ReadLimit == 16

Managers == 1..NumManagers
Inodes == 1..(NumManagers + 1)

\* os.path.isfile(self.filename) is false: no inode is linked at the path
NoFile == 0

\* os.getpid() of the process manager m lives in
getpid(m) == FirstPid + m

VARIABLES
    path,          \* inode linked at the resolved path, or NoFile
    content,       \* content[i]: the characters stored in inode i
    locked,        \* managers whose open handle holds the flock
    fh,            \* fh[m]: self.fh, [st: "none" | "open" | "closed", ino]
    is_setup,      \* is_setup[m]: self._is_setup
    filename,      \* filename[m]: self.filename, NoName before the first setup
    self_pid,      \* self_pid[m]: self.pid, NoPid before the first setup
    opts,          \* opts[m]: pidname, piddir, enforce_dotpid_postfix, force_tmpdir
    env,           \* sys.argv[0] and whether /var/run/ is a directory
    lock_pidfile,  \* lock_pidfile[m]: constructor option
    sigterm,       \* sigterm[m]: SIGTERM disposition of m's process
    hooks,         \* hooks[m]: number of atexit registrations of self.close
    proc,          \* proc[m]: "running" | "exit_0" | "exit_1" | "dead"
    scope,         \* scope[m]: TRUE inside a with block
    pc,            \* pc[m]: position of m inside create/close (ConcSpec)
    last           \* the last call made and what it raised: [op, m, how, raised]

vars == <<path, content, locked, fh, is_setup, filename, self_pid, opts, env,
          lock_pidfile, sigterm, hooks, proc, scope, pc, last>>

\* ------------------------------------------------------- text conversions
DigitChars == <<"0", "1", "2", "3", "4", "5", "6", "7", "8", "9">>
Whitespace == {" ", "\n", "\t"}

RECURSIVE Digits(_)
\* "%d" % n for n >= 0
Digits(n) ==
    IF n < 10 THEN <<DigitChars[n + 1]>>
    ELSE Digits(n \div 10) \o <<DigitChars[(n % 10) + 1]>>

\* "%d\n" % self.pid
FormatPid(n) == Digits(n) \o <<"\n">>

\* fh.read(16) from position 0
Read16(c) == SubSeq(c, 1, IF Len(c) < ReadLimit THEN Len(c) ELSE ReadLimit)

RECURSIVE FirstLine(_)
\* s.split("\n", 1)[0]
FirstLine(s) ==
    IF s = <<>> \/ Head(s) = "\n" THEN <<>>
    ELSE <<Head(s)>> \o FirstLine(Tail(s))

RECURSIVE LStrip(_)
LStrip(s) == IF s # <<>> /\ Head(s) \in Whitespace THEN LStrip(Tail(s)) ELSE s

RECURSIVE RStrip(_)
RStrip(s) ==
    IF s # <<>> /\ s[Len(s)] \in Whitespace THEN RStrip(SubSeq(s, 1, Len(s) - 1))
    ELSE s

\* s.strip()
Strip(s) == RStrip(LStrip(s))

\* pid_str of inner_check
PidStr(c) == Strip(FirstLine(Read16(c)))

DigitValue(ch) == CHOOSE d \in 0..9 : DigitChars[d + 1] = ch

\* int(s) succeeds (over the alphabet of the model: digits, blanks, letters)
IsInt(s) == s # <<>> /\ \A k \in 1..Len(s) : \E d \in 1..10 : DigitChars[d] = s[k]

RECURSIVE ToInt(_)
\* int(s)
ToInt(s) ==
    IF s = <<>> THEN 0
    ELSE 10 * ToInt(SubSeq(s, 1, Len(s) - 1)) + DigitValue(s[Len(s)])

\* ------------------------------------------------------------------ paths
\* self.pidname and self.piddir are None or a string; strings are sequences
\* of characters.
None == <<>>
Some(s) == <<s>>

\* self.filename = None, self.pid = None (lines 54-55)
NoName == <<>>
NoPid == 0

DotPid == <<".", "p", "i", "d">>

\* DEFAULT_PID_DIR (line 13)
DEFAULT_PID_DIR == <<"/", "v", "a", "r", "/", "r", "u", "n", "/">>

\* tempfile.gettempdir()
gettempdir == <<"/", "t", "m", "p">>

\* os.getcwd()
getcwd == <<"/", "w">>

\* s.endswith(suffix)
endswith(s, suffix) ==
    /\ Len(s) >= Len(suffix)
    /\ SubSeq(s, Len(s) - Len(suffix) + 1, Len(s)) = suffix

RECURSIVE basename(_)
\* os.path.basename(p): what follows the last "/"
basename(p) ==
    IF p = <<>> \/ p[Len(p)] = "/" THEN <<>>
    ELSE basename(SubSeq(p, 1, Len(p) - 1)) \o <<p[Len(p)]>>

\* os.path.join(a, b)
join(a, b) ==
    IF b # <<>> /\ Head(b) = "/" THEN b
    ELSE IF a = <<>> \/ a[Len(a)] = "/" THEN a \o b
    ELSE a \o <<"/">> \o b

RECURSIVE split(_)
\* p.split("/")
split(p) ==
    IF p = <<>> THEN << <<>> >>
    ELSE LET rest == split(Tail(p))
         IN  IF Head(p) = "/" THEN << <<>> >> \o rest
             ELSE << <<Head(p)>> \o Head(rest) >> \o Tail(rest)

RECURSIVE normcomps(_, _)
\* the loop of os.path.normpath over the components of an absolute path:
\* empty components and "." are dropped, ".." drops the component before it
normcomps(comps, acc) ==
    IF comps = <<>> THEN acc
    ELSE LET c == Head(comps)
         IN  IF c = <<>> \/ c = <<".">> THEN normcomps(Tail(comps), acc)
             ELSE IF c = <<".", ".">>
             THEN normcomps(Tail(comps),
                            IF acc = <<>> THEN acc ELSE SubSeq(acc, 1, Len(acc) - 1))
             ELSE normcomps(Tail(comps), Append(acc, c))

RECURSIVE joincomps(_)
joincomps(comps) ==
    IF comps = <<>> THEN <<>>
    ELSE <<"/">> \o Head(comps) \o joincomps(Tail(comps))

\* os.path.normpath(p) for an absolute p (no path of the model starts
\* with exactly two slashes)
normpath(p) ==
    LET comps == normcomps(split(p), <<>>)
    IN  IF comps = <<>> THEN <<"/">> ELSE joincomps(comps)

\* os.path.abspath(p)
abspath(p) ==
    normpath(IF p # <<>> /\ Head(p) = "/" THEN p ELSE join(getcwd, p))

\* ------------------------------------------------------------- exceptions
NoExc == [kind |-> "none", msg |-> <<>>]
Raise(kind, msg) == [kind |-> kind, msg |-> msg]

RunningMsg(pid) == <<"Program already running with pid: ">> \o Digits(pid)
EpermMsg == <<"[Errno 1] Operation not permitted">>
WouldBlockMsg == <<"[Errno 11] Resource temporarily unavailable">>
ClosedFileMsg == <<"I/O operation on closed file">>
EioMsg == <<"[Errno 5] Input/output error">>
BadLiteralMsg == <<"invalid literal for int() with base 10">>

\* ------------------------------------------------------------ the world
\* The state the methods read and write, as one record; raised is the
\* exception of the call in progress.
World ==
    [path |-> path, content |-> content, locked |-> locked, fh |-> fh,
     is_setup |-> is_setup, filename |-> filename, pid |-> self_pid,
     opts |-> opts, env |-> env, lock_pidfile |-> lock_pidfile,
     sigterm |-> sigterm, hooks |-> hooks, proc |-> proc, raised |-> NoExc]

Absent == [st |-> "none", ino |-> NoFile]
Closed == [st |-> "closed", ino |-> NoFile]
Open(i) == [st |-> "open", ino |-> i]

InUse(w, i) == w.path = i \/ \E m \in Managers : w.fh[m] = Open(i)

\* The kernel frees an inode that is neither linked nor open.
Reclaim(w) ==
    [w EXCEPT !.content = [i \in Inodes |-> IF InUse(w, i) THEN w.content[i] ELSE <<>>]]

FreeInode(w) ==
    CHOOSE i \in Inodes : ~InUse(w, i) /\ \A j \in Inodes : ~InUse(w, j) => i <= j

\* os.kill(pid, 0): the managers' processes may signal each other; the
\* foreign process belongs to another user; no other pid is in use.
os_kill(w, pid) ==
    IF \E m \in Managers : getpid(m) = pid /\ w.proc[m] # "dead" THEN "ok"
    ELSE IF pid = ForeignPid THEN "EPERM"
    ELSE "ESRCH"

\* ---------------------------------------------------------------- _setup
\* mutant: no handler is installed
register_term_signal_never(disposition) == disposition

\* lines 101-122
register_term_signal(disposition) ==
    IF disposition = "SIG_DFL" THEN "sigterm_noop_handler" ELSE disposition

\* mutant: the suffix is appended without looking at the end of the name
make_pidname_always(o, e) ==
    LET pidname == IF o.pidname = None
                   THEN basename(e.argv0) \o DotPid
                   ELSE o.pidname[1]
    IN  IF o.enforce_dotpid_postfix THEN pidname \o DotPid ELSE pidname

\* lines 79-84 of _make_filename; o: the options of the manager, e: the
\* environment
make_pidname(o, e) ==
    LET pidname == IF o.pidname = None
                   THEN basename(e.argv0) \o DotPid
                   ELSE o.pidname[1]
    IN  IF o.enforce_dotpid_postfix /\ ~endswith(pidname, DotPid)
        THEN pidname \o DotPid
        ELSE pidname

\* mutant: force_tmpdir is not looked at
make_piddir_unforced(o, e) ==
    IF o.piddir = None
    THEN IF e.var_run_isdir THEN DEFAULT_PID_DIR ELSE gettempdir
    ELSE o.piddir[1]

\* lines 80, 85-89 of _make_filename
make_piddir(o, e) ==
    IF o.piddir = None
    THEN IF e.var_run_isdir /\ o.force_tmpdir = FALSE
         THEN DEFAULT_PID_DIR
         ELSE gettempdir
    ELSE o.piddir[1]

\* lines 78-99
make_filename(o, e) == abspath(join(make_piddir(o, e), make_pidname(o, e)))

\* lines 70-73
setup_filename(w, m) ==
    IF w.filename[m] = NoName
    THEN [w EXCEPT !.pid[m] = getpid(m),
                   !.filename[m] = make_filename(w.opts[m], w.env),
                   !.sigterm[m] = register_term_signal(@)]
    ELSE w

\* mutant: every call resolves the name again
setup_again(w, m) ==
    [w EXCEPT !.pid[m] = getpid(m),
              !.filename[m] = make_filename(w.opts[m], w.env),
              !.sigterm[m] = IF w.is_setup[m] THEN @ ELSE register_term_signal(@),
              !.is_setup[m] = TRUE]

\* mutant: every call looks at the SIGTERM disposition again
setup_rearm(w, m) ==
    IF w.is_setup[m] THEN [w EXCEPT !.sigterm[m] = register_term_signal(@)]
    ELSE [setup_filename(w, m) EXCEPT !.is_setup[m] = TRUE]

\* lines 67-76
setup(w, m) ==
    IF w.is_setup[m] THEN w
    ELSE [setup_filename(w, m) EXCEPT !.is_setup[m] = TRUE]

\* ----------------------------------------------------------------- close
\* own: the handle closed is self.fh (no fh argument, or self.fh passed);
\* otherwise it is the read handle check opened itself.

\* mutant: closing a closed file object raises
close_handle_strict(w, m, own) ==
    IF own /\ w.fh[m].st = "open"
    THEN [w EXCEPT !.fh[m] = Closed, !.locked = @ \ {m}]
    ELSE IF own /\ w.fh[m].st = "closed"
    THEN [w EXCEPT !.raised = Raise("ValueError", ClosedFileMsg)]
    ELSE w

\* lines 185-194: fh.close(); closing a closed file object does nothing
close_handle(w, m, own) ==
    IF own /\ w.fh[m].st = "open"
    THEN [w EXCEPT !.fh[m] = Closed, !.locked = @ \ {m}]
    ELSE w

\* lines 195-197: the finally clause; it also runs after "return" of line 189
close_remove(w, m, cleanup) ==
    IF w.filename[m] # NoName /\ w.path # NoFile /\ cleanup
    THEN [w EXCEPT !.path = NoFile]
    ELSE w

close(w, m, own, cleanup) ==
    Reclaim(close_remove(close_handle(w, m, own), m, cleanup))

\* mutant: the file is removed after the except clause instead of in a
\* finally clause, so an error that propagates skips the removal
close_failing_unguarded(w, m, cleanup, errno) ==
    IF errno = "EBADF"
    THEN Reclaim(close_remove(close_handle(w, m, TRUE), m, cleanup))
    ELSE [Reclaim(close_handle(w, m, TRUE)) EXCEPT !.raised = Raise("IOError", EioMsg)]

\* lines 182-197 when fh.close() of the open self.fh raises IOError(errno):
\* the descriptor is closed all the same; EBADF is swallowed (191-194), any
\* other error propagates after the finally clause has run (195-197)
close_failing(w, m, cleanup, errno) ==
    LET w1 == Reclaim(close_remove(close_handle(w, m, TRUE), m, cleanup))
    IN  IF errno = "EBADF" THEN w1
        ELSE [w1 EXCEPT !.raised = Raise("IOError", EioMsg)]

\* ----------------------------------------------------------------- check
\* mutant: the unreadable file is kept (cleanup=False)
unreadable_keep(w, m, own, msg) ==
    [close(w, m, own, FALSE) EXCEPT !.raised = Raise("PidFileUnreadableError", msg)]

\* lines 133-135: self.close(fh=fh); raise PidFileUnreadableError(exc)
unreadable(w, m, own, msg) ==
    [close(w, m, own, TRUE) EXCEPT !.raised = Raise("PidFileUnreadableError", msg)]

\* mutant: the file of the running process is removed (cleanup=True)
running_cleanup(w, m, own, msg) ==
    [close(w, m, own, TRUE) EXCEPT
        !.raised = Raise("PidFileAlreadyRunningError", msg)]

\* lines 142-145: self.close(fh=fh, cleanup=False); raise
\* PidFileAlreadyRunningError
running(w, m, own, msg) ==
    [close(w, m, own, FALSE) EXCEPT
        !.raised = Raise("PidFileAlreadyRunningError", msg)]

\* mutant: the errno test is inverted, ESRCH counts as running
inner_check_esrch(w, m, own) ==
    IF own /\ w.fh[m].st = "closed"
    THEN unreadable(w, m, own, ClosedFileMsg)
    ELSE
      LET ino == IF own THEN w.fh[m].ino ELSE w.path
          pid_str == PidStr(w.content[ino])
      IN  IF pid_str = <<>> THEN w
          ELSE IF ~IsInt(pid_str) THEN unreadable(w, m, own, BadLiteralMsg)
          ELSE
            LET pid == ToInt(pid_str)
                probe == os_kill(w, pid)
            IN  IF probe = "EPERM" THEN w
                ELSE IF probe = "ESRCH" THEN running(w, m, own, EpermMsg)
                ELSE running(w, m, own, RunningMsg(pid))

\* mutant: the handle is closed when the recorded process does not exist
inner_check_close_stale(w, m, own) ==
    IF own /\ w.fh[m].st = "closed"
    THEN unreadable(w, m, own, ClosedFileMsg)
    ELSE
      LET ino == IF own THEN w.fh[m].ino ELSE w.path
          pid_str == PidStr(w.content[ino])
      IN  IF pid_str = <<>> THEN w
          ELSE IF ~IsInt(pid_str) THEN unreadable(w, m, own, BadLiteralMsg)
          ELSE
            LET pid == ToInt(pid_str)
                probe == os_kill(w, pid)
            IN  IF probe = "ESRCH" THEN close(w, m, own, FALSE)
                ELSE IF probe = "EPERM" THEN running(w, m, own, EpermMsg)
                ELSE running(w, m, own, RunningMsg(pid))

\* lines 126-145
inner_check(w, m, own) ==
    IF own /\ w.fh[m].st = "closed"
    THEN unreadable(w, m, own, ClosedFileMsg)   \* fh.seek(0) raises ValueError
    ELSE
      LET ino == IF own THEN w.fh[m].ino ELSE w.path
          pid_str == PidStr(w.content[ino])
      IN  IF pid_str = <<>> THEN w
          ELSE IF ~IsInt(pid_str) THEN unreadable(w, m, own, BadLiteralMsg)
          ELSE
            LET pid == ToInt(pid_str)
                probe == os_kill(w, pid)
            IN  IF probe = "ESRCH" THEN w
                ELSE IF probe = "EPERM" THEN running(w, m, own, EpermMsg)
                ELSE running(w, m, own, RunningMsg(pid))

\* mutant: check always reads through a handle of its own
check_by_path(w0, m) ==
    LET w == setup(w0, m)
    IN  IF w.filename[m] # NoName /\ w.path # NoFile
        THEN inner_check(w, m, FALSE)
        ELSE w

\* lines 124-156
check(w0, m) ==
    LET w == setup(w0, m)
    IN  IF w.fh[m].st = "none"
        THEN IF w.filename[m] # NoName /\ w.path # NoFile
             THEN inner_check(w, m, FALSE)
             ELSE w
        ELSE inner_check(w, m, TRUE)

\* ---------------------------------------------------------------- create
\* lines 159-162: open(self.filename, 'a+') creates the file when it is
\* missing and never truncates; the file object self.fh referred to before
\* is dropped, which closes it and releases its lock.
create_open(w0, m) ==
    LET w == setup(w0, m)
        ino == IF w.path = NoFile THEN FreeInode(w) ELSE w.path
    IN  Reclaim([w EXCEPT !.path = ino, !.fh[m] = Open(ino), !.locked = @ \ {m}])

\* mutant: the failed lock closes with the default cleanup=True
create_lock_cleanup(w, m) ==
    IF ~w.lock_pidfile[m] THEN w
    ELSE IF \E o \in w.locked \ {m} : w.fh[o].ino = w.fh[m].ino
    THEN [close(w, m, TRUE, TRUE) EXCEPT
             !.raised = Raise("PidFileAlreadyLockedError", WouldBlockMsg)]
    ELSE [w EXCEPT !.locked = @ \cup {m}]

\* lines 163-168: flock(LOCK_EX | LOCK_NB)
create_lock(w, m) ==
    IF ~w.lock_pidfile[m] THEN w
    ELSE IF \E o \in w.locked \ {m} : w.fh[o].ino = w.fh[m].ino
    THEN [close(w, m, TRUE, FALSE) EXCEPT
             !.raised = Raise("PidFileAlreadyLockedError", WouldBlockMsg)]
    ELSE [w EXCEPT !.locked = @ \cup {m}]

\* mutant: the truncate() is missing
write_pid_append(c, pid) == c \o FormatPid(pid)

\* lines 174-179: seek(0), truncate() at the position, write (mode a+
\* appends at the end of the file)
write_pid(c, pid) == SubSeq(c, 1, 0) \o FormatPid(pid)

\* line 180: atexit.register(self.close); registrations beyond MaxHooks are
\* not counted
register_hook(n) == IF n < MaxHooks THEN n + 1 ELSE n

create_write(w, m) ==
    [w EXCEPT !.content[w.fh[m].ino] = write_pid(@, w.pid[m]),
              !.hooks[m] = register_hook(@)]

create(w, m) ==
    LET w1 == create_lock(create_open(w, m), m)
    IN  IF w1.raised # NoExc THEN w1
        ELSE LET w2 == check(w1, m)
             IN  IF w2.raised # NoExc THEN w2 ELSE create_write(w2, m)

\* ------------------------------------------------------- process exit
\* The process of m is gone: the kernel closes its descriptors.
process_gone(w, m) ==
    Reclaim([close_handle(w, m, TRUE) EXCEPT !.proc[m] = "dead"])

\* ------------------------------------------------------------ initial state
Pad(n) == [k \in 1..n |-> "0"]

\* What the file at the path may hold before any manager touches it.
InitialContents ==
    { <<>>,                                     \* empty
      FormatPid(StalePid),                      \* pid of no process
      FormatPid(ForeignPid),                    \* pid of another user's process
      <<"x", "y", "\n">>,                       \* not a number
      <<" ">> \o Digits(StalePid) \o <<" ", "\n", "x">>,
      <<"\n", "x", "y">>,                       \* empty first line
      Pad(ReadLimit - Len(Digits(StalePid))) \o Digits(StalePid) \o <<"x", "\n">> }

Dispositions == {"SIG_DFL", "SIG_IGN", "custom", "unknown"}

InitFile(contents) ==
    \/ /\ path = NoFile
       /\ content = [i \in Inodes |-> <<>>]
    \/ /\ path = 1
       /\ \E c \in contents : content = [i \in Inodes |-> IF i = 1 THEN c ELSE <<>>]

InitManagers ==
    /\ locked = {}
    /\ fh = [m \in Managers |-> Absent]
    /\ is_setup = [m \in Managers |-> FALSE]
    /\ filename = [m \in Managers |-> NoName]
    /\ self_pid = [m \in Managers |-> NoPid]
    /\ hooks = [m \in Managers |-> 0]
    /\ proc = [m \in Managers |-> "running"]
    /\ scope = [m \in Managers |-> FALSE]
    /\ pc = [m \in Managers |-> "idle"]
    /\ last = [op |-> "init", m |-> 1, how |-> "", raised |-> NoExc]

\* lock_pidfile is a constructor option of each manager.
LockOptions == [Managers -> BOOLEAN]

\* PidFile(): no name, no directory, the suffix enforced, no forced tmpdir
\* (lines 37-39)
DefaultOptions ==
    [pidname |-> None, piddir |-> None, enforce_dotpid_postfix |-> TRUE,
     force_tmpdir |-> FALSE]

\* The program "d" on a system where /var/run/ is a directory.
DefaultEnv == [argv0 |-> <<"d">>, var_run_isdir |-> TRUE]

InitDefaults ==
    /\ opts = [m \in Managers |-> DefaultOptions]
    /\ env = DefaultEnv

Init ==
    /\ InitFile(InitialContents)
    /\ InitManagers
    /\ InitDefaults
    /\ lock_pidfile \in LockOptions
    /\ sigterm = [m \in Managers |-> "SIG_DFL"]

\* ------------------------------------------------------------------ actions
Apply(w) ==
    /\ path' = w.path
    /\ content' = w.content
    /\ locked' = w.locked
    /\ fh' = w.fh
    /\ is_setup' = w.is_setup
    /\ filename' = w.filename
    /\ self_pid' = w.pid
    /\ sigterm' = w.sigterm
    /\ hooks' = w.hooks
    /\ proc' = w.proc
    /\ UNCHANGED <<opts, env, lock_pidfile>>

Ready(m) == proc[m] = "running" /\ pc[m] = "idle"

Called(op, m, how, w) ==
    last' = [op |-> op, m |-> m, how |-> how, raised |-> w.raised]

\* m.check()
Check(m) ==
    /\ Ready(m)
    /\ LET w == check(World, m)
       IN  Apply(w) /\ Called("check", m, "", w)
    /\ UNCHANGED <<scope, pc>>

\* m.create()
Create(m) ==
    /\ Ready(m)
    /\ LET w == create(World, m)
       IN  Apply(w) /\ Called("create", m, "", w)
    /\ UNCHANGED <<scope, pc>>

\* m.close(cleanup=cleanup)
Close(m, cleanup) ==
    /\ Ready(m)
    /\ LET w == close(World, m, TRUE, cleanup)
       IN  Apply(w) /\ Called("close", m, IF cleanup THEN "cleanup" ELSE "keep", w)
    /\ UNCHANGED <<scope, pc>>

\* with m: ...   (__enter__, lines 199-201)
Enter(m) ==
    /\ Ready(m)
    /\ ~scope[m]
    /\ LET w == create(World, m)
       IN  /\ Apply(w)
           /\ Called("enter", m, "", w)
           /\ scope' = [scope EXCEPT ![m] = (w.raised = NoExc)]
    /\ UNCHANGED pc

\* mutant: __exit__ closes the handle and keeps the file
ExitKeep(m, how) ==
    /\ Ready(m)
    /\ scope[m]
    /\ LET w == close(World, m, TRUE, FALSE)
       IN  Apply(w) /\ Called("exit", m, how, w)
    /\ scope' = [scope EXCEPT ![m] = FALSE]
    /\ UNCHANGED pc

\* the with block is left, normally or by an exception   (__exit__, 203-204)
Exit(m, how) ==
    /\ Ready(m)
    /\ scope[m]
    /\ LET w == close(World, m, TRUE, TRUE)
       IN  Apply(w) /\ Called("exit", m, how, w)
    /\ scope' = [scope EXCEPT ![m] = FALSE]
    /\ UNCHANGED pc

Next ==
    \E m \in Managers :
        \/ Check(m)
        \/ Create(m)
        \/ \E cleanup \in BOOLEAN : Close(m, cleanup)

Spec == Init /\ [][Next]_vars

\* ------------------------------------------------- scoped acquisition
\* Managers used through "with": inside the block the caller may also call
\* check or close.
ScopeInit ==
    /\ InitFile({<<>>, FormatPid(StalePid), <<"x", "y", "\n">>})
    /\ InitManagers
    /\ InitDefaults
    /\ lock_pidfile \in LockOptions
    /\ sigterm = [m \in Managers |-> "SIG_DFL"]

ScopeNext ==
    \E m \in Managers :
        \/ Enter(m)
        \/ \E how \in {"normal", "error"} : Exit(m, how)
        \/ Check(m)
        \/ Close(m, TRUE)

ScopeSpec == ScopeInit /\ [][ScopeNext]_vars

\* ------------------------------------------------- process termination
\* Programs that create the PID file and never call close themselves, all
\* started with the same SIGTERM disposition.
\* The interpreter starts to shut down: the main program has ended.
Terminate(m) ==
    /\ Ready(m)
    /\ proc' = [proc EXCEPT ![m] = "exit_0"]
    /\ last' = [op |-> "terminate", m |-> m, how |-> "", raised |-> NoExc]
    /\ UNCHANGED <<path, content, locked, fh, is_setup, filename, self_pid,
                   opts, env, lock_pidfile, sigterm, hooks, scope, pc>>

\* What SIGTERM does to a process with the given disposition.  A handler of
\* the caller, or one Python does not know, may return or end the program.
SigtermOutcomes(disposition) ==
    IF disposition = "SIG_DFL" THEN {"killed"}
    ELSE IF disposition = "SIG_IGN" THEN {"ignored"}
    ELSE IF disposition = "sigterm_noop_handler" THEN {"SystemExit(1)"}
    ELSE {"returns", "exits"}

\* The interpreter of m is shutting down, with exit status 0 or 1.
Exiting(m) == proc[m] \in {"exit_0", "exit_1"}

\* SIGTERM is delivered to the process of m; sigterm_noop_handler (lines
\* 104-105) raises SystemExit(1), which starts the interpreter's shutdown.
SigTerm(m, outcome) ==
    /\ Ready(m)
    /\ outcome \in SigtermOutcomes(sigterm[m])
    /\ Apply(IF outcome = "killed" THEN process_gone(World, m)
             ELSE IF outcome = "SystemExit(1)"
                  THEN [World EXCEPT !.proc[m] = "exit_1"]
             ELSE IF outcome = "exits"
                  THEN [World EXCEPT !.proc[m] = "exit_0"]
             ELSE World)
    /\ last' = [op |-> "SIGTERM", m |-> m, how |-> outcome, raised |-> NoExc]
    /\ UNCHANGED <<scope, pc>>

\* One function registered with atexit runs: self.close()
RunExitHook(m) ==
    /\ Exiting(m)
    /\ hooks[m] > 0
    /\ LET w == close(World, m, TRUE, TRUE)
       IN  /\ Apply([w EXCEPT !.hooks[m] = @ - 1])
           /\ Called("atexit", m, "", w)
    /\ UNCHANGED <<scope, pc>>

\* All the exit functions have run: the process ends.
Finish(m) ==
    /\ Exiting(m)
    /\ hooks[m] = 0
    /\ Apply(process_gone(World, m))
    /\ last' = [op |-> "finish", m |-> m, how |-> "", raised |-> NoExc]
    /\ UNCHANGED <<scope, pc>>

ExitInit ==
    /\ InitFile({FormatPid(StalePid)})
    /\ InitManagers
    /\ InitDefaults
    /\ lock_pidfile = [m \in Managers |-> TRUE]
    /\ \E d \in Dispositions : sigterm = [m \in Managers |-> d]

ExitNext ==
    \E m \in Managers :
        \/ Create(m)
        \/ Terminate(m)
        \/ \E outcome \in {"killed", "ignored", "returns", "exits", "SystemExit(1)"} :
              SigTerm(m, outcome)
        \/ RunExitHook(m)
        \/ Finish(m)

\* Once the interpreter shuts down it runs every registered exit function.
ExitSpec ==
    /\ ExitInit
    /\ [][ExitNext]_vars
    /\ \A m \in Managers : WF_vars(RunExitHook(m))

\* ------------------------------------------- create and close step by step
\* pc[m]: "idle", or the step of create or close that m takes next.
Goto(m, label) == pc' = [pc EXCEPT ![m] = label]

\* create: setup and open (lines 159-162)
StepOpen(m) ==
    /\ Ready(m)
    /\ Apply(create_open(World, m))
    /\ Goto(m, "lock")
    /\ UNCHANGED <<scope, last>>

\* create: flock (lines 163-168)
StepLock(m) ==
    /\ pc[m] = "lock"
    /\ LET w == create_lock(World, m)
       IN  /\ Apply(w)
           /\ IF w.raised = NoExc
              THEN Goto(m, "check") /\ UNCHANGED last
              ELSE Goto(m, "idle") /\ Called("create", m, "", w)
    /\ UNCHANGED scope

\* create: self.check() (line 169)
StepCheck(m) ==
    /\ pc[m] = "check"
    /\ LET w == check(World, m)
       IN  /\ Apply(w)
           /\ IF w.raised = NoExc
              THEN Goto(m, "write") /\ UNCHANGED last
              ELSE Goto(m, "idle") /\ Called("create", m, "", w)
    /\ UNCHANGED scope

\* create: truncate, write the pid, register the exit function (174-180)
StepWrite(m) ==
    /\ pc[m] = "write"
    /\ LET w == create_write(World, m)
       IN  Apply(w) /\ Called("create", m, "", w)
    /\ Goto(m, "idle")
    /\ UNCHANGED scope

\* close: fh.close() (lines 185-194)
StepCloseHandle(m) ==
    /\ Ready(m)
    /\ Apply(close_handle(World, m, TRUE))
    /\ Goto(m, "remove")
    /\ UNCHANGED <<scope, last>>

\* close: the finally clause (lines 195-197)
StepRemove(m) ==
    /\ pc[m] = "remove"
    /\ LET w == Reclaim(close_remove(World, m, TRUE))
       IN  Apply(w) /\ Called("close", m, "cleanup", w)
    /\ Goto(m, "idle")
    /\ UNCHANGED scope

ConcInit ==
    /\ InitFile({<<>>, FormatPid(StalePid), <<"x", "y", "\n">>})
    /\ InitManagers
    /\ InitDefaults
    /\ lock_pidfile = [m \in Managers |-> TRUE]
    /\ sigterm = [m \in Managers |-> "SIG_DFL"]

ConcNext ==
    \E m \in Managers :
        \/ StepOpen(m)
        \/ StepLock(m)
        \/ StepCheck(m)
        \/ StepWrite(m)
        \/ StepCloseHandle(m)
        \/ StepRemove(m)

ConcSpec == ConcInit /\ [][ConcNext]_vars

\* ------------------------------------------------------ name resolution
\* The name hints: none, a plain name, names that end with ".pid" or only
\* with "pid".  A hint is a file name: not empty, without "/".
PidNames ==
    { None,
      Some(<<"c">>),
      Some(<<"c", ".", "p", "i", "d">>),
      Some(<<"c", "p", "i", "d">>),
      Some(<<".", "p", "i", "d">>) }

\* The directory hints: none, an absolute directory with and without a
\* trailing "/", a directory relative to the working directory.
PidDirs ==
    { None, Some(<<"/", "e">>), Some(<<"/", "e", "/">>), Some(<<"r">>) }

OptionSpace ==
    [pidname : PidNames, piddir : PidDirs,
     enforce_dotpid_postfix : BOOLEAN, force_tmpdir : BOOLEAN]

\* The program is started as "d" or as "/b/d.pid".
EnvSpace ==
    [argv0 : { <<"d">>, <<"/", "b", "/", "d", ".", "p", "i", "d">> },
     var_run_isdir : BOOLEAN]

NameInit ==
    /\ InitFile({})
    /\ InitManagers
    /\ \E o \in OptionSpace : opts = [m \in Managers |-> o]
    /\ env \in EnvSpace
    /\ lock_pidfile = [m \in Managers |-> TRUE]
    /\ sigterm = [m \in Managers |-> "SIG_DFL"]

\* m._setup(), called by the program itself
Setup(m) ==
    /\ Ready(m)
    /\ LET w == setup(World, m)
       IN  Apply(w) /\ Called("_setup", m, "", w)
    /\ UNCHANGED <<scope, pc>>

\* No file is at the path and nobody creates one: what the calls do is the
\* setup.
NameNext ==
    \E m \in Managers :
        \/ Setup(m)
        \/ Check(m)

NameSpec == NameInit /\ [][NameNext]_vars

\* --------------------------------------------- hints changed after setup
\* PidFile(pidname="c", piddir="/e")
HintedOptions ==
    [pidname |-> Some(<<"c">>), piddir |-> Some(<<"/", "e">>),
     enforce_dotpid_postfix |-> TRUE, force_tmpdir |-> FALSE]

\* What the program assigns later: another name, no directory, no suffix
\* (reading any of the three again would resolve another path), or the
\* first values again.
ChangedOptions ==
    { [HintedOptions EXCEPT !.pidname = Some(<<"x">>),
                            !.piddir = None,
                            !.enforce_dotpid_postfix = FALSE],
      HintedOptions }

HintInit ==
    /\ InitFile({})
    /\ InitManagers
    /\ opts = [m \in Managers |-> HintedOptions]
    /\ env = DefaultEnv
    /\ lock_pidfile = [m \in Managers |-> TRUE]
    /\ sigterm = [m \in Managers |-> "SIG_DFL"]

\* The program assigns to m.pidname, m.piddir or m.enforce_dotpid_postfix
\* of a manager that went through its first setup.
SetHints(m, o) ==
    /\ Ready(m)
    /\ filename[m] # NoName
    /\ opts[m] # o
    /\ opts' = [opts EXCEPT ![m] = o]
    /\ last' = [op |-> "hints", m |-> m, how |-> "", raised |-> NoExc]
    /\ UNCHANGED <<path, content, locked, fh, is_setup, filename, self_pid, env,
                   lock_pidfile, sigterm, hooks, proc, scope, pc>>

HintNext ==
    \E m \in Managers :
        \/ Check(m)
        \/ Create(m)
        \/ \E o \in ChangedOptions : SetHints(m, o)

HintSpec == HintInit /\ [][HintNext]_vars

\* ------------------------------------------- SIGTERM disposition changed
\* Programs started with any SIGTERM disposition.
SignalInit ==
    /\ InitFile({})
    /\ InitManagers
    /\ InitDefaults
    /\ lock_pidfile = [m \in Managers |-> TRUE]
    /\ \E d \in Dispositions : sigterm = [m \in Managers |-> d]

\* The program of m, its manager set up, calls
\* signal.signal(signal.SIGTERM, signal.SIG_DFL).
RestoreDefault(m) ==
    /\ Ready(m)
    /\ is_setup[m]
    /\ sigterm[m] # "SIG_DFL"
    /\ sigterm' = [sigterm EXCEPT ![m] = "SIG_DFL"]
    /\ last' = [op |-> "signal", m |-> m, how |-> "", raised |-> NoExc]
    /\ UNCHANGED <<path, content, locked, fh, is_setup, filename, self_pid, opts,
                   env, lock_pidfile, hooks, proc, scope, pc>>

SignalNext ==
    \E m \in Managers :
        \/ Check(m)
        \/ Create(m)
        \/ RestoreDefault(m)

SignalSpec == SignalInit /\ [][SignalNext]_vars

\* ------------------------------------------------- closing again, failing
\* m.close(cleanup=cleanup) where fh.close() fails with errno
CloseFails(m, cleanup, errno) ==
    /\ Ready(m)
    /\ fh[m].st = "open"
    /\ LET w == close_failing(World, m, cleanup, errno)
       IN  /\ Apply(w)
           /\ last' = [op |-> IF errno = "EBADF" THEN "close_EBADF" ELSE "close_EIO",
                       m |-> m,
                       how |-> IF cleanup THEN "cleanup" ELSE "keep",
                       raised |-> w.raised]
    /\ UNCHANGED <<scope, pc>>

\* Programs that create, close (closing the handle may fail) and end.
CloseInit ==
    /\ InitFile({FormatPid(StalePid)})
    /\ InitManagers
    /\ InitDefaults
    /\ lock_pidfile = [m \in Managers |-> TRUE]
    /\ sigterm = [m \in Managers |-> "SIG_DFL"]

CloseNext ==
    \E m \in Managers :
        \/ Create(m)
        \/ \E cleanup \in BOOLEAN :
              \/ Close(m, cleanup)
              \/ \E errno \in {"EBADF", "EIO"} : CloseFails(m, cleanup, errno)
        \/ Terminate(m)
        \/ RunExitHook(m)
        \/ Finish(m)

CloseSpec == CloseInit /\ [][CloseNext]_vars

\* m is in the created state: its create has returned and its handle is
\* still open (close, or a failing check, closes it).
InCreated(m) == fh[m].st = "open" /\ pc[m] = "idle" /\ proc[m] = "running"

\* ------------------------------------------------------------------ claims

\* C1: with every manager locking on the same path, at most one manager at a
\* time is in the created state, whatever the interleaving of the steps of
\* create and close.
C1_MutualExclusion ==
    Cardinality({m \in Managers : InCreated(m)}) <= 1

\* The step taken is the call op of manager m.
Step(op, m) == last'.op = op /\ last'.m = m

\* Another manager's open handle holds the lock on the file at the path.
LockedByOther(m) ==
    \E o \in locked \ {m} : fh[o].ino = path

\* What inner_check makes of the file at the path.
Recorded == PidStr(content[path])
RecordsRunning ==
    path # NoFile /\ IsInt(Recorded) /\ os_kill(World, ToInt(Recorded)) # "ESRCH"
RecordsNobody ==
    path # NoFile /\ (Recorded = <<>>
                      \/ (IsInt(Recorded) /\ os_kill(World, ToInt(Recorded)) = "ESRCH"))
RecordsGarbage ==
    path # NoFile /\ Recorded # <<>> /\ ~IsInt(Recorded)

\* check is called alone by a manager without handle, or runs inside a create
\* that gets past its lock step.
CheckRuns(m) ==
    \/ Step("check", m) /\ fh[m] = Absent
    \/ Step("create", m) /\ ~(lock_pidfile[m] /\ LockedByOther(m))

\* m1 has created the file with locking enabled: the file at the path is the
\* one m1 holds open and locked.
HoldsFile(m1) ==
    /\ InCreated(m1)
    /\ lock_pidfile[m1]
    /\ m1 \in locked
    /\ path = fh[m1].ino

\* C2: when m1 has created the file with locking enabled and m2, locking too,
\* calls create, that create raises PidFileAlreadyLockedError, and afterwards
\* m1 still holds its lock and the file is on disk with m1's pid, unchanged.
C2_LockContention ==
    [][\A m1, m2 \in Managers :
          (m1 # m2 /\ HoldsFile(m1) /\ lock_pidfile[m2] /\ Step("create", m2))
          => /\ last'.raised = Raise("PidFileAlreadyLockedError", WouldBlockMsg)
             /\ m1 \in locked'
             /\ fh'[m1] = fh[m1]
             /\ path' = path
             /\ content'[path'] = content[path]
             /\ content'[path'] = FormatPid(getpid(m1))]_vars

C2_Witness ==
    /\ last.op = "create"
    /\ last.raised.kind = "PidFileAlreadyLockedError"
    /\ lock_pidfile[last.m]
    /\ \E m1 \in Managers \ {last.m} :
          HoldsFile(m1) /\ content[path] = FormatPid(getpid(m1))

\* C3: after create returns successfully the file holds exactly the decimal
\* pid of the creating process and one newline, whatever it held before.
C3_ContentIsPid ==
    [][\A m \in Managers :
          (Step("create", m) /\ last'.raised = NoExc)
          => /\ path' # NoFile
             /\ fh'[m] = Open(path')
             /\ LET c == content'[path']
                    digits == SubSeq(c, 1, Len(c) - 1)
                IN  /\ c # <<>> /\ c[Len(c)] = "\n"
                    /\ IsInt(digits) /\ digits[1] # "0"
                    /\ ToInt(digits) = getpid(m)]_vars

\* create has succeeded on a file that held a longer text before
C3_Witness ==
    /\ last.op = "create"
    /\ last.raised = NoExc
    /\ fh[last.m] = Open(path)
    /\ content[path] = FormatPid(getpid(last.m))
    /\ \E c \in InitialContents : Len(c) > Len(content[path])

\* The file at the path is left as it is.
FileIntact == path' = path /\ content'[path'] = content[path]

\* C4: when the file records the pid of a running process, check (alone on a
\* manager without handle, or inside create) fails with the already-running
\* error naming that pid, and the file is left intact.
C4_RunningNamesPid ==
    [][\A m \in Managers :
          (CheckRuns(m) /\ RecordsRunning)
          => /\ last'.raised =
                   Raise("PidFileAlreadyRunningError", RunningMsg(ToInt(Recorded)))
             /\ FileIntact]_vars

\* C4 as amended: the error names the pid when the probe os.kill(pid, 0)
\* succeeds; when the probe fails with another error than ESRCH the error
\* carries that OS error instead.  The file is left intact in both cases.
C4_RunningIntact ==
    [][\A m \in Managers :
          (CheckRuns(m) /\ RecordsRunning)
          => /\ last'.raised.kind = "PidFileAlreadyRunningError"
             /\ last'.raised.msg =
                   IF os_kill(World, ToInt(Recorded)) = "ok"
                   THEN RunningMsg(ToInt(Recorded))
                   ELSE EpermMsg
             /\ FileIntact]_vars

\* check alone has met the pid of a running manager and named it
C4_Witness ==
    /\ last.op = "check"
    /\ fh[last.m] = Absent
    /\ RecordsRunning
    /\ \E o \in Managers \ {last.m} :
          /\ content[path] = FormatPid(getpid(o))
          /\ last.raised = Raise("PidFileAlreadyRunningError", RunningMsg(getpid(o)))

\* C5: when the first line of the first 16 bytes, stripped, is not empty and
\* is no integer, check (alone or inside create) raises the unreadable error
\* and the file is gone from the disk when the error is raised.
C5_GarbageDeleted ==
    [][\A m \in Managers :
          (CheckRuns(m) /\ RecordsGarbage)
          => /\ last'.raised.kind = "PidFileUnreadableError"
             /\ path' = NoFile]_vars

C5_Witness ==
    /\ last.op \in {"check", "create"}
    /\ last.raised = Raise("PidFileUnreadableError", BadLiteralMsg)
    /\ path = NoFile

\* C6: check alone on a manager without handle, on a file that is empty or
\* records the pid of no process, returns without error and changes nothing:
\* same file, same content, still no handle.
C6_StaleCheckIsPure ==
    [][\A m \in Managers :
          (Step("check", m) /\ fh[m] = Absent /\ RecordsNobody)
          => /\ last'.raised = NoExc
             /\ FileIntact
             /\ content' = content
             /\ fh' = fh
             /\ locked' = locked]_vars

C6_Witness ==
    /\ last.op = "check"
    /\ last.raised = NoExc
    /\ fh[last.m] = Absent
    /\ path # NoFile
    /\ content[path] = FormatPid(StalePid)

\* C7: close without handle argument on a manager that holds no handle is a
\* no-op; a file at the path is still on disk afterwards.
C7_CloseWithoutHandle ==
    [][\A m \in Managers :
          (Step("close", m) /\ last'.how = "cleanup" /\ fh[m] = Absent)
          => /\ path' = path
             /\ content' = content
             /\ fh' = fh]_vars

\* C10: after close the manager holds no file handle, as before creation.
C10_HandleAbsentAfterClose ==
    [][\A m \in Managers : Step("close", m) => fh'[m] = Absent]_vars

\* C8: whenever entering the with block succeeded, once the block is left,
\* normally or by an exception, close has run: the handle is closed, its lock
\* released, and no file is at the path.
C8_ScopeExitRemoves ==
    [][\A m \in Managers :
          (scope[m] /\ Step("exit", m))
          => /\ path' = NoFile
             /\ fh'[m] = Closed
             /\ m \notin locked'
             /\ ~scope'[m]]_vars

\* a block entered on a stale file was left by an exception
C8_Witness ==
    /\ last.op = "exit"
    /\ last.how = "error"
    /\ ~scope[last.m]
    /\ fh[last.m] = Closed
    /\ path = NoFile

\* The process of m shuts down with close registered: its main program
\* ended, or SIGTERM reached it and the disposition found at setup was the
\* default one.
Terminating(m) ==
    /\ hooks[m] > 0
    /\ last.m = m
    /\ \/ last.op = "terminate"
       \/ last.op = "SIGTERM" /\ sigterm[m] \notin {"SIG_IGN", "custom", "unknown"}

\* The exit function of m has just run close and no file is at the path.
HookRemoved(m) ==
    last.op = "atexit" /\ last.m = m /\ path = NoFile /\ fh[m] = Closed

\* C9: if create succeeded and the caller never closes, then when the process
\* terminates normally, or gets SIGTERM with the default disposition at
\* setup, the exit function eventually runs close and the file is removed.
C9_ExitHookRemoves ==
    \A m \in Managers : Terminating(m) ~> HookRemoved(m)

\* the exit function ran after SIGTERM met the handler installed by setup
C9_Witness ==
    /\ HookRemoved(last.m)
    /\ proc[last.m] = "exit_1"
    /\ sigterm[last.m] = "sigterm_noop_handler"
    /\ hooks[last.m] = 0

\* The first setup of m: self.filename gets its value.
Resolves(m) == filename[m] = NoName /\ filename'[m] # NoName

\* The position of the last "/" of a path, 0 when it has none.
LastSlash(p) ==
    IF \E k \in 1..Len(p) : p[k] = "/"
    THEN CHOOSE k \in 1..Len(p) :
            p[k] = "/" /\ \A j \in (k + 1)..Len(p) : p[j] # "/"
    ELSE 0

\* The base filename and the directory of a path.
BaseOf(p) == SubSeq(p, LastSlash(p) + 1, Len(p))
DirOf(p) == SubSeq(p, 1, LastSlash(p) - 1)

EndsWithDotPid(s) ==
    /\ Len(s) >= 4
    /\ s[Len(s) - 3] = "." /\ s[Len(s) - 2] = "p"
    /\ s[Len(s) - 1] = "i" /\ s[Len(s)] = "d"

\* C13: at the first setup, for every name hint: with enforcement enabled
\* the base filename ends with .pid, and is the hint itself when the hint
\* ends with .pid, else the hint with .pid appended once; with enforcement
\* disabled and a hint given it is exactly the hint; with no hint it is the
\* program base name followed by .pid.
C13_SuffixEnforcement ==
    [][\A m \in Managers :
          Resolves(m)
          => LET o == opts[m]
                 base == BaseOf(filename'[m])
             IN  /\ o.enforce_dotpid_postfix => EndsWithDotPid(base)
                 /\ (o.enforce_dotpid_postfix /\ o.pidname # None)
                    => base = IF EndsWithDotPid(o.pidname[1])
                              THEN o.pidname[1]
                              ELSE o.pidname[1] \o <<".", "p", "i", "d">>
                 /\ (~o.enforce_dotpid_postfix /\ o.pidname # None)
                    => base = o.pidname[1]
                 /\ o.pidname = None
                    => base = BaseOf(env.argv0) \o <<".", "p", "i", "d">>]_vars

\* a hint that ends with .pid was resolved with enforcement enabled, and
\* one that ends with "pid" only
C13_Witness ==
    \E m \in Managers :
        /\ filename[m] # NoName
        /\ opts[m].enforce_dotpid_postfix
        /\ \/ /\ opts[m].pidname = Some(<<"c", ".", "p", "i", "d">>)
              /\ BaseOf(filename[m]) = <<"c", ".", "p", "i", "d">>
           \/ /\ opts[m].pidname = Some(<<"c", "p", "i", "d">>)
              /\ BaseOf(filename[m]) = <<"c", "p", "i", "d", ".", "p", "i", "d">>

\* The directory a hint names: the hint without trailing "/", under the
\* working directory when it is relative.
HintedDir(h) ==
    LET d == IF h[Len(h)] = "/" THEN SubSeq(h, 1, Len(h) - 1) ELSE h
    IN  IF h[1] = "/" THEN d ELSE <<"/", "w", "/">> \o d

\* C14: at the first setup, with no directory hint the directory is
\* /var/run exactly when /var/run/ is a directory and force_tmpdir is false,
\* and the temporary directory in every other case; with a directory hint
\* it is the hinted directory whatever those two conditions are.
C14_DirectoryFallback ==
    [][\A m \in Managers :
          Resolves(m)
          => LET o == opts[m]
                 dir == DirOf(filename'[m])
             IN  IF o.piddir = None
                 THEN dir = IF env.var_run_isdir /\ ~o.force_tmpdir
                            THEN <<"/", "v", "a", "r", "/", "r", "u", "n">>
                            ELSE <<"/", "t", "m", "p">>
                 ELSE dir = HintedDir(o.piddir[1])]_vars

\* /var/run/ is a directory, and force_tmpdir sent the file to /tmp
C14_Witness ==
    \E m \in Managers :
        /\ filename[m] # NoName
        /\ opts[m].piddir = None
        /\ opts[m].force_tmpdir
        /\ env.var_run_isdir
        /\ DirOf(filename[m]) = <<"/", "t", "m", "p">>

\* C11: once a manager is set up, every later step (check, create, a change
\* of its hints) leaves its resolved path and its captured pid as they are.
C11_SetupOnce ==
    [][\A m \in Managers :
          is_setup[m]
          => /\ filename'[m] = filename[m]
             /\ self_pid'[m] = self_pid[m]
             /\ filename'[m] # NoName
             /\ self_pid'[m] = getpid(m)]_vars

\* check or create has run on a manager whose hints were changed after its
\* setup, and its path is still the one of the hints given at construction
C11_Witness ==
    /\ last.op \in {"check", "create"}
    /\ opts[last.m] # HintedOptions
    /\ filename[last.m] = <<"/", "e", "/", "c", ".", "p", "i", "d">>
    /\ self_pid[last.m] = getpid(last.m)

\* C12: a check or create of m installs sigterm_noop_handler in m's process
\* exactly when it is m's first setup and the disposition it finds is the
\* default; in every other case (SIG_IGN, a handler of the caller, an
\* unknown handler, or a manager already set up) the disposition is left as
\* it is.  No other process's disposition changes.
C12_HandlerDecidedOnce ==
    [][\A m \in Managers :
          (Step("check", m) \/ Step("create", m))
          => /\ sigterm'[m] = IF ~is_setup[m] /\ sigterm[m] = "SIG_DFL"
                              THEN "sigterm_noop_handler"
                              ELSE sigterm[m]
             /\ \A o \in Managers \ {m} : sigterm'[o] = sigterm[o]]_vars

\* the program restored the default after the setup, and a later check or
\* create left it in place
C12_Witness ==
    /\ last.op \in {"check", "create"}
    /\ is_setup[last.m]
    /\ sigterm[last.m] = "SIG_DFL"

\* owner is in the created state and the file at the path is its own, with
\* its pid.
Owns(owner) ==
    /\ InCreated(owner)
    /\ path = fh[owner].ino
    /\ content[path] = FormatPid(getpid(owner))

\* C15: while one manager is in the created state, no check, create or close
\* of another manager deletes or rewrites the file: it stays at the path
\* with the owner's pid.
C15_OnlyOwnerRemoves ==
    [][\A owner, m \in Managers :
          (m # owner /\ Owns(owner)
           /\ (Step("check", m) \/ Step("create", m) \/ Step("close", m)))
          => FileIntact]_vars

\* The file at the path records the pid of a process that does not exist.
RecordsStale ==
    path # NoFile /\ IsInt(Recorded) /\ os_kill(World, ToInt(Recorded)) = "ESRCH"

\* C16: create on a file that nobody else holds locked and that records the
\* pid of no process succeeds: the same file is still at the path, the
\* manager holds it open (and locked, when it locks), and what the file
\* records now is the pid of the manager's process, no longer the stale one.
C16_StaleTakeover ==
    [][\A m \in Managers :
          (Step("create", m) /\ RecordsStale /\ ~LockedByOther(m))
          => /\ last'.raised = NoExc
             /\ path' = path
             /\ fh'[m] = Open(path)
             /\ lock_pidfile[m] => m \in locked'
             /\ IsInt(PidStr(content'[path]))
             /\ ToInt(PidStr(content'[path])) = getpid(m)
             /\ ToInt(Recorded) # getpid(m)]_vars

\* a locking manager holds the file that was at the path from the start,
\* open and locked, with its own pid in it
C16_Witness ==
    /\ last.op = "create"
    /\ last.raised = NoExc
    /\ lock_pidfile[last.m]
    /\ last.m \in locked
    /\ path = 1
    /\ fh[last.m] = Open(path)
    /\ content[path] = FormatPid(getpid(last.m))
    /\ \A o \in Managers \ {last.m} : ~is_setup[o]

\* C17: check on a manager in the created state raises the already-running
\* error that names the manager's own pid and closes the manager's handle,
\* which releases its lock; the check removes no file and changes no
\* content: what is at the path stays there as it is.
C17_CheckOnCreated ==
    [][\A m \in Managers :
          (Step("check", m) /\ InCreated(m))
          => /\ last'.raised =
                   Raise("PidFileAlreadyRunningError", RunningMsg(getpid(m)))
             /\ fh'[m] = Closed
             /\ m \notin locked'
             /\ path' = path
             /\ path # NoFile => content'[path] = content[path]
             /\ content[fh[m].ino] = FormatPid(getpid(m))]_vars

\* the check has closed the handle of a manager whose file is still at the
\* path with its pid
C17_Witness ==
    /\ last.op = "check"
    /\ last.raised = Raise("PidFileAlreadyRunningError", RunningMsg(getpid(last.m)))
    /\ fh[last.m] = Closed
    /\ hooks[last.m] > 0
    /\ path # NoFile
    /\ content[path] = FormatPid(getpid(last.m))
    /\ locked = {}

\* C18: once a manager whose create succeeded has closed (its handle is
\* closed and no file is at the path), a further close, called by the
\* program or run as exit function, raises nothing and changes nothing: the
\* handle stays closed, no file appears, no content and no lock changes.
C18_CloseAgain ==
    [][\A m \in Managers :
          (hooks[m] > 0 /\ fh[m] = Closed /\ path = NoFile
           /\ (Step("close", m) \/ Step("atexit", m)))
          => /\ last'.raised = NoExc
             /\ fh' = fh
             /\ path' = NoFile
             /\ content' = content
             /\ locked' = locked]_vars

\* Only one manager was ever used; it created, the file is gone, and its
\* last call was a close that keeps files: an earlier close removed the file.
C18_Witness ==
    /\ last.op = "close"
    /\ last.how = "keep"
    /\ last.raised = NoExc
    /\ hooks[last.m] > 0
    /\ fh[last.m] = Closed
    /\ path = NoFile
    /\ \A o \in Managers \ {last.m} : ~is_setup[o]

\* The step is a close of m called by the program, fh.close() failing or not.
Closes(m) == last'.m = m /\ last'.op \in {"close", "close_EBADF", "close_EIO"}

\* C19: when close is called on a manager that has a handle, with cleanup
\* true no file is at the path afterwards, also when fh.close() fails with
\* EBADF (swallowed) or with another error (which propagates); with cleanup
\* false, on any manager, the file at the path is left as it is.
C19_RemovalInFinally ==
    [][\A m \in Managers :
          Closes(m)
          => /\ (last'.how = "cleanup" /\ fh[m] # Absent) => path' = NoFile
             /\ last'.how = "keep"
                => (path' = path /\ (path # NoFile => content'[path] = content[path]))
             /\ last'.raised = IF last'.op = "close_EIO"
                               THEN Raise("IOError", EioMsg)
                               ELSE NoExc]_vars

\* Only one manager was ever used; closing its open handle failed with EIO,
\* the error was raised and the file it had created is gone.
C19_Witness ==
    /\ last.op = "close_EIO"
    /\ last.how = "cleanup"
    /\ last.raised = Raise("IOError", EioMsg)
    /\ fh[last.m] = Closed
    /\ path = NoFile
    /\ \A o \in Managers \ {last.m} : ~is_setup[o]

====
